---- MODULE Spec2Model ----
(***************************************************************************)
(* Model of bitstream_iter: the mask algebra of bitmasks.py (create,       *)
(* apply, combine over Python's unbounded integers) and the lazy bit       *)
(* stream of bitstream.py (a deque of single-use bit producers, the        *)
(* generator objects handed out by iter(), iter_ints() and iter_bytes(),   *)
(* and the write operations).                                              *)
(***************************************************************************)
EXTENDS Integers, Sequences, FiniteSets, TLC

\* ------------------------------------------------------------------ bounds

\* Largest width given to create() in the mask-algebra specification.
MaxWidth == 5
\* Largest reverse_group_width given to create().
MaxGroup == 3
\* Longest value list handed to one write call.
MaxLen == 2
\* Longest integer list handed to one write_ints / write_bytes call.
MaxInts == 1
\* Longest byte list handed to write_bytes in the byte specification.
MaxBytes == 2
\* Number of write calls made on the stream.
MaxWrites == 2
\* Number of iteration objects taken from the stream.
MaxIters == 2

\* ----------------------------------------------------- Python integer ops

Pow2(n) == 2 ^ n

RECURSIVE BitAnd(_, _)
\* a & b on unbounded two's-complement integers
BitAnd(a, b) ==
  IF a = 0 \/ b = 0 THEN 0
  ELSE IF a = -1 THEN b
  ELSE IF b = -1 THEN a
  ELSE (a % 2) * (b % 2) + 2 * BitAnd(a \div 2, b \div 2)

RECURSIVE BitOr(_, _)
\* a | b on unbounded two's-complement integers
BitOr(a, b) ==
  IF a = 0 THEN b
  ELSE IF b = 0 THEN a
  ELSE IF a = -1 \/ b = -1 THEN -1
  ELSE (IF a % 2 = 1 \/ b % 2 = 1 THEN 1 ELSE 0) + 2 * BitOr(a \div 2, b \div 2)

\* Python truth value of an integer
Truthy(v) == v # 0

Reverse(s) == [i \in 1..Len(s) |-> s[Len(s) + 1 - i]]

Min(a, b) == IF a < b THEN a ELSE b
Max(a, b) == IF a > b THEN a ELSE b

\* s[lo:hi] for 0 <= lo (a slice reaching past the end is cut short)
PySlice(s, lo, hi) == SubSeq(s, Max(lo, 0) + 1, Min(hi, Len(s)))

RECURSIVE PyRangeFrom(_, _, _)
\* list(range(start, stop, step)), step # 0
PyRangeFrom(start, stop, step) ==
  IF (step > 0 /\ start >= stop) \/ (step < 0 /\ start <= stop) THEN <<>>
  ELSE <<start>> \o PyRangeFrom(start + step, stop, step)

RECURSIVE Flatten(_)
\* itertools.chain.from_iterable over a sequence of sequences
Flatten(ss) == IF ss = <<>> THEN <<>> ELSE Head(ss) \o Flatten(Tail(ss))

\* ------------------------------------------------------------ bitmasks.py

\* a weight list that starts at 2 instead of 1
PowerListFromOne(width) == [n \in 1..Max(width, 0) |-> Pow2(n)]

\* bits = list((1 << n) for n in range(width))
PowerList(width) == [n \in 1..Max(width, 0) |-> Pow2(n - 1)]

\* a create() that forgets the sign weight
KeepLast(bits) == bits

\* if signed: bits.append(-bits.pop())
NegateLast(bits) == [i \in 1..Len(bits) |-> IF i = Len(bits) THEN -bits[i] ELSE bits[i]]

\* a create() that leaves the groups in place
KeepGroups(bits, width, gw) == bits

\* the group reversal of create(): chunks of group width, last chunk first
ReverseGroups(bits, width, gw) ==
  LET starts == Reverse(PyRangeFrom(0, width, gw))
  IN  Flatten([k \in 1..Len(starts) |-> PySlice(bits, starts[k], starts[k] + gw)])

\* create(width, signed, lsb_first, reverse_group_width); gw = 0 stands for
\* None (any falsy group width). err names the exception raised, if any.
Create(width, signed, lsb_first, gw) ==
  LET b0 == PowerList(width)
  IN  IF signed /\ b0 = <<>>
        THEN [err |-> "IndexError", masks |-> <<>>]
        ELSE LET b1 == IF signed THEN NegateLast(b0) ELSE b0
                 b2 == IF lsb_first THEN b1 ELSE Reverse(b1)
             IN  IF gw = 0
                   THEN [err |-> "none", masks |-> b2]
                   ELSE [err |-> "none", masks |-> ReverseGroups(b2, width, gw)]

\* an apply() that walks the masks from the wrong end
ApplyBackwards(masks, value) ==
  [i \in 1..Len(masks) |-> BitAnd(value, masks[Len(masks) + 1 - i])]

\* apply(masks, value)
Apply(masks, value) == [i \in 1..Len(masks) |-> BitAnd(value, masks[i])]

RECURSIVE CombineFrom(_, _, _)
CombineFrom(masks, bits, acc) ==
  IF masks = <<>> \/ bits = <<>> THEN acc
  ELSE CombineFrom(Tail(masks), Tail(bits),
                   IF Truthy(Head(bits)) THEN BitOr(acc, Head(masks)) ELSE acc)

\* a combine that ORs the magnitudes of the weights
CombineMagnitudes(masks, bits) ==
  CombineFrom([k \in 1..Len(masks) |-> IF masks[k] < 0 THEN -masks[k] ELSE masks[k]], bits, 0)

\* combine(masks, bits): zip stops at the shorter of the two
Combine(masks, bits) == CombineFrom(masks, bits, 0)

\* the standard masks of bitmasks.py
INT8_MSB_FIRST == Create(8, TRUE, FALSE, 0).masks
INT8_LSB_FIRST == Create(8, TRUE, TRUE, 0).masks
UINT8_MSB_FIRST == Create(8, FALSE, FALSE, 0).masks
UINT8_LSB_FIRST == Create(8, FALSE, TRUE, 0).masks
INT16_BE == Create(16, TRUE, FALSE, 0).masks
INT16_LE == Create(16, TRUE, FALSE, 8).masks
UINT16_BE == Create(16, FALSE, FALSE, 0).masks
UINT16_LE == Create(16, FALSE, FALSE, 8).masks

\* ----------------------------------------------------------- bitstream.py

VARIABLES
  byte_bitmasks,  \* self.byte_bitmasks
  end_fill,       \* self.end_fill: <<>> is None, <<b>> the value b
  bit_sources,    \* self._bit_sources: the deque of bit producers, front first
  iters,          \* the generator objects handed out so far, in creation order
  nwrites,        \* write calls made so far
  written,        \* history kept by the byte specifications: the write calls made
  last,           \* the latest call and its outcome
  expect,         \* history: the unread stream contents, as the writes define them
  mcall           \* the latest mask-algebra call and its result

vars == <<byte_bitmasks, end_fill, bit_sources, iters, nwrites, written, last, expect, mcall>>

\* A caller's value source is a sequence of elements: <<v>> delivers the value v
\* when pulled, <<>> raises when pulled.
Raises == <<>>

\* a make_bit that passes the value through
RawBit(value) == value

\* make_bit(value)
make_bit(value) == IF Truthy(value) THEN 1 ELSE 0

\* a producer that reads its value source backwards
BitProducerReversed(values) ==
  [kind |-> "bits", src |-> [k \in 1..Len(values) |-> values[Len(values) + 1 - k]],
   masks |-> <<>>, cur |-> <<>>]

\* bits = (make_bit(b) for b in values): nothing is pulled until the first next()
BitProducer(values) ==
  [kind |-> "bits", src |-> values, masks |-> <<>>, cur |-> <<>>]

\* make_bit over chain.from_iterable(apply(masks, v) for v in values); cur holds
\* the masked values of the integer being decomposed
IntProducer(values, masks) ==
  [kind |-> "ints", src |-> values, masks |-> masks, cur |-> <<>>]

\* a producer that steps over the failing element and goes on
Resumable(p) == [p EXCEPT !.src = Tail(p.src), !.cur = <<>>]

\* a generator that has raised is finished: every later next() ends
Finished(p) == [p EXCEPT !.src = <<>>, !.cur = <<>>]

RECURSIVE EagerNextOfProducer(_)
\* a producer that pulls its whole value source on the first next()
EagerNextOfProducer(p) ==
  IF \E k \in 1..Len(p.src) : p.src[k] = Raises
    THEN [res |-> "raise", bit |-> 0, p |-> Finished(p)]
  ELSE IF p.cur # <<>>
    THEN [res |-> "bit", bit |-> make_bit(Head(p.cur)), p |-> [p EXCEPT !.cur = Tail(p.cur)]]
  ELSE IF p.src = <<>>
    THEN [res |-> "end", bit |-> 0, p |-> p]
  ELSE IF p.kind = "bits"
    THEN [res |-> "bit", bit |-> make_bit(Head(p.src)[1]), p |-> [p EXCEPT !.src = Tail(p.src)]]
  ELSE EagerNextOfProducer([p EXCEPT !.src = Tail(p.src),
                                     !.cur = Apply(p.masks, Head(p.src)[1])])

RECURSIVE NextOfProducer(_)
\* next(producer, None): the bit, the end of the producer, or the exception of
\* the value source
NextOfProducer(p) ==
  IF p.cur # <<>>
    THEN [res |-> "bit", bit |-> make_bit(Head(p.cur)), p |-> [p EXCEPT !.cur = Tail(p.cur)]]
  ELSE IF p.src = <<>>
    THEN [res |-> "end", bit |-> 0, p |-> p]
  ELSE IF Head(p.src) = Raises
    THEN [res |-> "raise", bit |-> 0, p |-> Finished(p)]
  ELSE IF p.kind = "bits"
    THEN [res |-> "bit", bit |-> make_bit(Head(p.src)[1]), p |-> [p EXCEPT !.src = Tail(p.src)]]
  ELSE NextOfProducer([p EXCEPT !.src = Tail(p.src),
                                !.cur = Apply(p.masks, Head(p.src)[1])])

\* a generator that stops at an exhausted producer without discarding it
BitIterNextKeep(q) ==
  IF Len(q) = 0 \/ NextOfProducer(q[1]).res = "end"
    THEN [res |-> "stop", bit |-> 0, q |-> q]
    ELSE [res |-> NextOfProducer(q[1]).res, bit |-> NextOfProducer(q[1]).bit,
          q |-> <<NextOfProducer(q[1]).p>> \o Tail(q)]

RECURSIVE BitIterNext(_)
\* one next() of the generator of BitStream.__iter__ on the deque q
BitIterNext(q) ==
  IF Len(q) = 0 THEN [res |-> "stop", bit |-> 0, q |-> q]
  ELSE LET r == NextOfProducer(q[1])
       IN  IF r.res = "end" THEN BitIterNext(Tail(q))
           ELSE [res |-> r.res, bit |-> r.bit, q |-> <<r.p>> \o Tail(q)]

\* an islice that takes nothing
IsliceNone(q, n, acc) == [end |-> "full", bits |-> acc, q |-> q]

RECURSIVE Islice(_, _, _)
\* list(itertools.islice(bit_iter, n)) on a live bit_iter: the bits taken and
\* how the taking ended (n bits taken, StopIteration, or an exception)
Islice(q, n, acc) ==
  IF n = 0 THEN [end |-> "full", bits |-> acc, q |-> q]
  ELSE LET r == BitIterNext(q)
       IN  IF r.res = "bit" THEN Islice(r.q, n - 1, Append(acc, r.bit))
           ELSE [end |-> r.res, bits |-> acc, q |-> r.q]

\* an enqueue that ignores at_start
EnqueueAtEnd(q, p, at_start) == Append(q, p)

\* self._bit_sources.appendleft(bits) / .append(bits)
Enqueue(q, p, at_start) == IF at_start THEN <<p>> \o q ELSE Append(q, p)

\* write_bits(values, at_start) on the deque q
write_bits(q, values, at_start) == Enqueue(q, BitProducer(values), at_start)

\* write_ints(values, masks, at_start) on the deque q
write_ints(q, values, masks, at_start) == Enqueue(q, IntProducer(values, masks), at_start)

\* masks = masks or self.byte_bitmasks (an empty or absent masks is falsy)
MasksOrDefault(masks, default) == IF masks = <<>> THEN default ELSE masks

\* the sentinel default of the end_fill parameter
Sentinel == <<-1>>

\* a resolution that always takes the constructor's end_fill
StreamFillOnly(fill, stream_fill) == stream_fill

\* if end_fill == -1: end_fill = self.end_fill
EffectiveFill(fill, stream_fill) == IF fill = Sentinel THEN stream_fill ELSE fill

\* a padding loop that never runs
NoPad(bits, fill, n) == bits

RECURSIVE PadFill(_, _, _)
\* while end_fill and len(bits) < len(masks): bits.append(end_fill)
PadFill(bits, fill, n) ==
  IF fill # <<>> /\ Truthy(fill[1]) /\ Len(bits) < n
    THEN PadFill(Append(bits, fill[1]), fill, n)
    ELSE bits

\* a write-back that hands write_bits nothing
NoValues(bits) == <<>>

\* the partially read bits as a value source for write_bits
AsValues(bits) == [k \in 1..Len(bits) |-> <<bits[k]>>]

\* a test of the short group that forgets the fill policy
KeepsAnyShort(bits, n, fill) == Len(bits) < n

\* elif len(bits) < len(masks) and end_fill is None
KeepsTail(bits, n, fill) == Len(bits) < n /\ fill = <<>>

\* an iter_ints that yields nothing and gives every bit it collected back to the
\* front of the stream, also when the value source failed
IterIntsNextRestoring(it, q, stream_fill) ==
  LET sl == Islice(q, Len(it.masks), <<>>)
  IN  [res |-> IF sl.end = "raise" THEN "raise" ELSE "stop", val |-> 0, bits |-> sl.bits,
       q |-> write_bits(sl.q, AsValues(sl.bits), TRUE), state |-> "done", inner |-> "done"]

\* one next() of the generator of iter_ints: it is the generator's record, q the
\* deque. bits are the bits islice returned for this group.
IterIntsNext(it, q, stream_fill) ==
  LET fill == EffectiveFill(it.fill, stream_fill)
      n    == Len(it.masks)
      sl   == IF it.inner = "done" THEN [end |-> "stop", bits |-> <<>>, q |-> q]
              ELSE Islice(q, n, <<>>)
      inner == IF sl.end = "full" THEN it.inner ELSE "done"
  IN  IF sl.end = "raise"
        THEN [res |-> "raise", val |-> 0, bits |-> sl.bits, q |-> sl.q,
              state |-> "done", inner |-> "done"]
      ELSE IF Len(sl.bits) = 0
        THEN [res |-> "stop", val |-> 0, bits |-> sl.bits, q |-> sl.q,
              state |-> "done", inner |-> inner]
      ELSE IF KeepsTail(sl.bits, n, fill)
        THEN [res |-> "stop", val |-> 0, bits |-> sl.bits,
              q |-> write_bits(sl.q, AsValues(sl.bits), FALSE),
              state |-> "done", inner |-> inner]
      ELSE [res |-> "int", val |-> Combine(it.masks, PadFill(sl.bits, fill, n)),
            bits |-> sl.bits, q |-> sl.q, state |-> "active", inner |-> inner]

\* a generator object: kind "bits" is iter(stream), kind "ints" is iter_ints /
\* iter_bytes; state "done" once it has returned or raised; inner is the state of
\* the bit_iter an iter_ints generator holds; got lists what it has yielded
BitIterator ==
  [kind |-> "bits", masks |-> <<>>, fill |-> <<>>, state |-> "active",
   inner |-> "active", got |-> <<>>]

IntIterator(masks, fill) ==
  [kind |-> "ints", masks |-> masks, fill |-> fill, state |-> "active",
   inner |-> "active", got |-> <<>>]

\* an iteration object that looks at the deque again on every next()
NeverSpent(it) == FALSE

\* a generator that has returned or raised only ever raises StopIteration
Spent(it) == it.state = "done"

Event(op, i, res, val, bits) ==
  [op |-> op, it |-> i, res |-> res, val |-> val, bits |-> bits]

\* ------------------------------------------------------ history (expect)

\* The unread contents of the stream as a sequence of tokens: <<b>> is the bit
\* b, <<>> is the failure of a value source (nothing of that source follows).
BitsOfValue(kind, v, masks) ==
  IF kind = "bits" THEN << <<make_bit(v)>> >>
  ELSE [k \in 1..Len(masks) |-> <<IF BitAnd(v, masks[k]) # 0 THEN 1 ELSE 0>>]

RECURSIVE SourceTokens(_, _, _)
SourceTokens(kind, values, masks) ==
  IF values = <<>> THEN <<>>
  ELSE IF Head(values) = Raises THEN <<Raises>>
  ELSE BitsOfValue(kind, Head(values)[1], masks) \o SourceTokens(kind, Tail(values), masks)

RECURSIVE TakeTokens(_, _)
\* the tokens a read of n bits consumes: n tokens, fewer at the end of the
\* stream, none after a failure
TakeTokens(toks, n) ==
  IF n = 0 \/ toks = <<>> THEN <<>>
  ELSE IF Head(toks) = Raises THEN <<Raises>>
  ELSE <<Head(toks)>> \o TakeTokens(Tail(toks), n - 1)

WriteCall(values, masks, at_start) ==
  [values |-> values, masks |-> masks, at_start |-> at_start]

DropTokens(toks, k) == SubSeq(toks, k + 1, Len(toks))

EndsInFailure(toks) == toks # <<>> /\ toks[Len(toks)] = Raises

TokenBits(toks) == [k \in 1..Len(toks) |-> toks[k][1]]

RECURSIVE DrainAll(_)
\* every token a fresh iter(stream) would still deliver from the deque q
DrainAll(q) ==
  LET r == BitIterNext(q)
  IN  IF r.res = "stop" THEN <<>>
      ELSE IF r.res = "raise" THEN <<Raises>> \o DrainAll(r.q)
      ELSE << <<r.bit>> >> \o DrainAll(r.q)

ExpectAfterWrite(toks, at_start) ==
  IF at_start THEN toks \o expect ELSE expect \o toks

ExpectAfterNextInt(it) ==
  LET n    == Len(it.masks)
      took == TakeTokens(expect, n)
      fill == EffectiveFill(it.fill, end_fill)
  IN  IF it.state = "done" \/ it.inner = "done" THEN expect
      ELSE IF ~EndsInFailure(took) /\ Len(took) < n /\ fill = <<>> THEN expect
      ELSE DropTokens(expect, Len(took))

\* ---------------------------------------------------------------- actions

\* stream.write_bits(values, at_start)
WriteBits(values, at_start) ==
  /\ nwrites < MaxWrites
  /\ bit_sources' = write_bits(bit_sources, values, at_start)
  /\ nwrites' = nwrites + 1
  /\ last' = Event("write_bits", 0, "ok", 0, <<>>)
  /\ expect' = ExpectAfterWrite(SourceTokens("bits", values, <<>>), at_start)
  /\ UNCHANGED <<byte_bitmasks, end_fill, iters, mcall>>

\* stream.write_ints(values, masks, at_start)
WriteInts(values, masks, at_start) ==
  /\ nwrites < MaxWrites
  /\ bit_sources' = write_ints(bit_sources, values, masks, at_start)
  /\ nwrites' = nwrites + 1
  /\ last' = Event("write_ints", 0, "ok", 0, <<>>)
  /\ expect' = ExpectAfterWrite(SourceTokens("ints", values, masks), at_start)
  /\ UNCHANGED <<byte_bitmasks, end_fill, iters, mcall>>

\* stream.write_bytes(values, masks, at_start); masks = <<>> is the default None
WriteBytes(values, masks, at_start) ==
  LET m == MasksOrDefault(masks, byte_bitmasks)
  IN  /\ nwrites < MaxWrites
      /\ bit_sources' = write_ints(bit_sources, values, m, at_start)
      /\ nwrites' = nwrites + 1
      /\ last' = Event("write_bytes", 0, "ok", 0, <<>>)
      /\ expect' = ExpectAfterWrite(SourceTokens("ints", values, m), at_start)
      /\ UNCHANGED <<byte_bitmasks, end_fill, iters, mcall>>

\* iter(stream)
Iter ==
  /\ Len(iters) < MaxIters
  /\ iters' = Append(iters, BitIterator)
  /\ last' = Event("iter", Len(iters) + 1, "ok", 0, <<>>)
  /\ UNCHANGED <<byte_bitmasks, end_fill, bit_sources, nwrites, expect, mcall>>

\* stream.iter_ints(masks, end_fill)
IterInts(masks, fill) ==
  /\ Len(iters) < MaxIters
  /\ iters' = Append(iters, IntIterator(masks, fill))
  /\ last' = Event("iter_ints", Len(iters) + 1, "ok", 0, <<>>)
  /\ UNCHANGED <<byte_bitmasks, end_fill, bit_sources, nwrites, expect, mcall>>

\* stream.iter_bytes(masks, end_fill); masks = <<>> is the default None
IterBytes(masks, fill) ==
  /\ Len(iters) < MaxIters
  /\ iters' = Append(iters, IntIterator(MasksOrDefault(masks, byte_bitmasks), fill))
  /\ last' = Event("iter_bytes", Len(iters) + 1, "ok", 0, <<>>)
  /\ UNCHANGED <<byte_bitmasks, end_fill, bit_sources, nwrites, expect, mcall>>

\* a next() that reads the first bit of the stream without taking it
NextBitPeek(i) ==
  /\ iters[i].kind = "bits"
  /\ \E r \in {BitIterNext(bit_sources)} :
        /\ iters' = [iters EXCEPT
              ![i].state = IF r.res = "bit" THEN "active" ELSE "done",
              ![i].got = IF r.res = "bit" THEN Append(@, r.bit) ELSE @]
        /\ last' = Event("next", i, r.res, r.bit, <<>>)
  /\ UNCHANGED <<byte_bitmasks, end_fill, bit_sources, nwrites, expect, mcall>>

\* next(it) on the i-th generator, an iter(stream)
NextBit(i) ==
  /\ iters[i].kind = "bits"
  /\ IF Spent(iters[i])
       THEN /\ last' = Event("next", i, "stop", 0, <<>>)
            /\ UNCHANGED <<bit_sources, iters, expect>>
       ELSE \E r \in {BitIterNext(bit_sources)} :
                /\ bit_sources' = r.q
                /\ iters' = [iters EXCEPT
                      ![i].state = IF r.res = "bit" THEN "active" ELSE "done",
                      ![i].inner = IF r.res = "bit" THEN "active" ELSE "done",
                      ![i].got = IF r.res = "bit" THEN Append(@, r.bit) ELSE @]
                /\ last' = Event("next", i, r.res, r.bit, <<>>)
                /\ expect' = DropTokens(expect, Len(TakeTokens(expect, 1)))
  /\ UNCHANGED <<byte_bitmasks, end_fill, nwrites, mcall>>

\* next(it) on the i-th generator, an iter_ints / iter_bytes
NextInt(i) ==
  /\ iters[i].kind = "ints"
  /\ IF Spent(iters[i])
       THEN /\ last' = Event("next", i, "stop", 0, <<>>)
            /\ UNCHANGED <<bit_sources, iters, expect>>
       ELSE \E r \in {IterIntsNext(iters[i], bit_sources, end_fill)} :
                /\ bit_sources' = r.q
                /\ iters' = [iters EXCEPT
                      ![i].state = r.state,
                      ![i].inner = r.inner,
                      ![i].got = IF r.res = "int" THEN Append(@, r.val) ELSE @]
                /\ last' = Event("next", i, r.res, r.val, r.bits)
                /\ expect' = ExpectAfterNextInt(iters[i])
  /\ UNCHANGED <<byte_bitmasks, end_fill, nwrites, mcall>>

\* ------------------------------------------------- the stream specification

MaskCall(op, width, signed, lsb_first, gw, value, created, applied, combined) ==
  [op |-> op, width |-> width, signed |-> signed, lsb_first |-> lsb_first,
   gw |-> gw, value |-> value, err |-> created.err, masks |-> created.masks,
   applied |-> applied, combined |-> combined]

NoCall == MaskCall("none", 0, FALSE, FALSE, 0, 0, [err |-> "none", masks |-> <<>>], <<>>, 0)

SeqsUpTo(S, n) == UNION {[1..k -> S] : k \in 0..n}

\* mask sequences the stream is driven with: narrow widths keep the bit
\* patterns enumerable
UINT2_MSB_FIRST == Create(2, FALSE, FALSE, 0).masks
INT3_LSB_FIRST == Create(3, TRUE, TRUE, 0).masks
StreamMasks == {UINT2_MSB_FIRST, INT3_LSB_FIRST}

\* end_fill values: None, 0, 1
FillValues == {<<>>, <<0>>, <<1>>}

\* elements of the value sources handed to write_bits / write_ints
BitElements == {<<0>>, <<1>>, <<5>>, Raises}
IntElements == {<<2>>, <<-3>>, Raises}
PlainBits == {<<0>>, <<1>>, Raises}

NoEvent == Event("init", 0, "ok", 0, <<>>)

\* a stream constructed empty: BitStream(byte_bitmasks=..., end_fill=...)
EmptyStream(masks, fill) ==
  /\ byte_bitmasks = masks
  /\ end_fill = fill
  /\ bit_sources = <<>>
  /\ iters = <<>>
  /\ nwrites = 0
  /\ written = <<>>
  /\ last = NoEvent
  /\ expect = <<>>
  /\ mcall = NoCall

\* Spec: every kind of write, at either end, drained bit by bit through any
\* number of interleaved iter(stream) generators.
Init == \E masks \in StreamMasks : EmptyStream(masks, <<0>>)

StreamStep ==
  \/ \E values \in SeqsUpTo(BitElements, MaxLen), at_start \in BOOLEAN :
        WriteBits(values, at_start)
  \/ \E values \in SeqsUpTo(IntElements, MaxInts), masks \in StreamMasks, at_start \in BOOLEAN :
        WriteInts(values, masks, at_start)
  \/ \E values \in SeqsUpTo(IntElements, MaxInts), masks \in StreamMasks \cup {<<>>},
         at_start \in BOOLEAN :
        WriteBytes(values, masks, at_start)
  \/ Iter
  \/ \E i \in 1..Len(iters) : NextBit(i)

Next == StreamStep /\ UNCHANGED written

Spec == Init /\ [][Next]_vars

\* five bits of value 1, the partial byte of the documented examples
FiveOnes == [k \in 1..5 |-> <<1>>]

\* SpecInts: bits written at the end of the stream, read through every kind of
\* generator under every fill policy.
InitInts == \E fill \in FillValues : EmptyStream(UINT8_MSB_FIRST, fill)

IntsStep ==
  \/ \E values \in SeqsUpTo(PlainBits, MaxLen) \cup {FiveOnes} : WriteBits(values, FALSE)
  \/ Iter
  \/ \E fill \in FillValues \cup {Sentinel} : IterInts(INT3_LSB_FIRST, fill)
  \/ \E fill \in FillValues \cup {Sentinel} : IterBytes(<<>>, fill)
  \/ \E i \in 1..Len(iters) : NextBit(i)
  \/ \E i \in 1..Len(iters) : NextInt(i)

NextInts == IntsStep /\ UNCHANGED written

SpecInts == InitInts /\ [][NextInts]_vars

\* ------------------------------------------- the mask-algebra specification

\* masks = create(width, signed, lsb_first, gw)
CreateCall(width, signed, lsb_first, gw) ==
  /\ mcall' = MaskCall("create", width, signed, lsb_first, gw, 0,
                       Create(width, signed, lsb_first, gw), <<>>, 0)
  /\ UNCHANGED <<byte_bitmasks, end_fill, bit_sources, iters, nwrites, last, expect>>

\* combine(masks, apply(masks, value)) for masks = create(width, signed, lsb_first, gw)
RoundTrip(width, signed, lsb_first, gw, value) ==
  LET created == Create(width, signed, lsb_first, gw)
      applied == Apply(created.masks, value)
  IN  /\ created.err = "none"
      /\ mcall' = MaskCall("roundtrip", width, signed, lsb_first, gw, value,
                           created, applied, Combine(created.masks, applied))
      /\ UNCHANGED <<byte_bitmasks, end_fill, bit_sources, iters, nwrites, last, expect>>

\* combine(masks, bits) for masks = create(width, signed, lsb_first, gw); the
\* field applied holds the bits handed to combine
CombineCall(width, signed, lsb_first, gw, bits) ==
  LET created == Create(width, signed, lsb_first, gw)
  IN  /\ created.err = "none"
      /\ mcall' = MaskCall("combine", width, signed, lsb_first, gw, 0,
                           created, bits, Combine(created.masks, bits))
      /\ UNCHANGED <<byte_bitmasks, end_fill, bit_sources, iters, nwrites, last, expect>>

\* list(apply(masks, value)) for masks = create(width, signed, lsb_first, gw)
ApplyCall(width, signed, lsb_first, gw, value) ==
  LET created == Create(width, signed, lsb_first, gw)
  IN  /\ created.err = "none"
      /\ mcall' = MaskCall("apply", width, signed, lsb_first, gw, value,
                           created, Apply(created.masks, value), 0)
      /\ UNCHANGED <<byte_bitmasks, end_fill, bit_sources, iters, nwrites, last, expect>>

\* the widths create() is called with: the bounded ones and the byte width of
\* the standard masks
CombineWidths == (-1..MaxWidth) \cup {Len(UINT8_MSB_FIRST)}

\* bit lists for combine(): shorter than, as long as and longer than the masks
BitLists(width) == SeqsUpTo({0, 1}, Max(width, 0) + 1)

InitMask == EmptyStream(UINT8_MSB_FIRST, <<0>>)

\* one call of the mask algebra, on inputs drawn from the bounded sets
MaskStep ==
  \/ \E width \in -1..MaxWidth, signed \in BOOLEAN, lsb_first \in BOOLEAN, gw \in 0..MaxGroup :
        CreateCall(width, signed, lsb_first, gw)
  \/ \E width \in 1..MaxWidth, signed \in BOOLEAN, lsb_first \in BOOLEAN, gw \in 0..MaxGroup :
        \E value \in -Pow2(width)..Pow2(width) :
          RoundTrip(width, signed, lsb_first, gw, value)
  \/ \E width \in CombineWidths, signed \in BOOLEAN, lsb_first \in BOOLEAN, gw \in 0..MaxGroup :
        \E bits \in BitLists(width) :
          CombineCall(width, signed, lsb_first, gw, bits)
  \/ \E width \in -1..MaxWidth, signed \in BOOLEAN, lsb_first \in BOOLEAN, gw \in 0..MaxGroup :
        \E value \in -Pow2(Max(width, 0))..Pow2(Max(width, 0)) :
          ApplyCall(width, signed, lsb_first, gw, value)

NextMask == mcall.op = "none" /\ MaskStep /\ UNCHANGED written

SpecMask == InitMask /\ [][NextMask]_vars

\* ----------------------------------------------- the byte specifications

\* byte values, as write_bytes is handed them
ByteElements == {<<b>> : b \in 0..255}

ByteMasks == {UINT8_MSB_FIRST, UINT8_LSB_FIRST, INT8_MSB_FIRST, INT8_LSB_FIRST}

\* SpecBytes: BitStream(byte_bitmasks=masks), one write_bytes(values) on the
\* empty stream, then one iter_bytes() drained with next().
InitBytes == \E masks \in ByteMasks : EmptyStream(masks, <<0>>)

NextBytes ==
  \/ /\ nwrites = 0
     /\ \E values \in SeqsUpTo(ByteElements, MaxBytes) :
          /\ WriteBytes(values, <<>>, FALSE)
          /\ written' = Append(written, WriteCall(values, byte_bitmasks, FALSE))
  \/ /\ nwrites = 1 /\ iters = <<>>
     /\ IterBytes(<<>>, Sentinel)
     /\ UNCHANGED written
  \/ /\ \E i \in 1..Len(iters) : NextInt(i)
     /\ UNCHANGED written

SpecBytes == InitBytes /\ [][NextBytes]_vars

WordMasks == {UINT16_BE, UINT16_LE, INT16_BE, INT16_LE}

\* SpecEndian: two raw bytes written through the default UINT8_MSB_FIRST, then
\* one iter_ints over 16-bit masks drained with next().
InitEndian == EmptyStream(UINT8_MSB_FIRST, <<0>>)

NextEndian ==
  \/ /\ nwrites = 0
     /\ \E b0 \in ByteElements, b1 \in ByteElements :
          /\ WriteBytes(<<b0, b1>>, <<>>, FALSE)
          /\ written' = Append(written, WriteCall(<<b0, b1>>, byte_bitmasks, FALSE))
  \/ /\ nwrites = 1 /\ iters = <<>>
     /\ \E masks \in WordMasks : IterInts(masks, Sentinel)
     /\ UNCHANGED written
  \/ /\ \E i \in 1..Len(iters) : NextInt(i)
     /\ UNCHANGED written

SpecEndian == InitEndian /\ [][NextEndian]_vars

\* ----------------------------------------------- the bit-value specification

\* values of any truth value, and integers whose masked values are not 0 or 1
AnyValues == {<<0>>, <<5>>, <<-1>>}
MaskedValues == {<<2>>, <<-3>>}

\* SpecBits: BitStream(byte_bitmasks=UINT2_MSB_FIRST, end_fill=None) written
\* with values of any kind, read bit by bit and through iter_ints, which writes
\* a short tail back.
InitBits == EmptyStream(UINT2_MSB_FIRST, <<>>)

NextBits ==
  \/ \E values \in SeqsUpTo(AnyValues, MaxLen), at_start \in BOOLEAN :
        /\ WriteBits(values, at_start)
        /\ written' = Append(written, WriteCall(values, <<>>, at_start))
  \/ \E values \in SeqsUpTo(MaskedValues, MaxInts), at_start \in BOOLEAN :
        /\ WriteInts(values, INT3_LSB_FIRST, at_start)
        /\ written' = Append(written, WriteCall(values, INT3_LSB_FIRST, at_start))
  \/ \E values \in SeqsUpTo(MaskedValues, MaxInts), at_start \in BOOLEAN :
        /\ WriteBytes(values, <<>>, at_start)
        /\ written' = Append(written, WriteCall(values, byte_bitmasks, at_start))
  \/ Iter /\ UNCHANGED written
  \/ IterInts(INT3_LSB_FIRST, Sentinel) /\ UNCHANGED written
  \/ (\E i \in 1..Len(iters) : NextBit(i)) /\ UNCHANGED written
  \/ (\E i \in 1..Len(iters) : NextInt(i)) /\ UNCHANGED written

SpecBits == InitBits /\ [][NextBits]_vars

\* ---------------------------------------------- the empty-stream specification

\* SpecEmpty: BitStream() or BitStream([]) under every end_fill, drained through
\* every kind of generator, and the mask algebra called on the empty mask
\* sequence create(0, signed=False).
InitEmpty == \E fill \in FillValues : EmptyStream(UINT8_MSB_FIRST, fill)

EmptyStep ==
  \/ \E at_start \in BOOLEAN : WriteBits(<<>>, at_start)
  \/ Iter
  \/ \E fill \in FillValues \cup {Sentinel} : IterInts(INT3_LSB_FIRST, fill)
  \/ IterBytes(<<>>, Sentinel)
  \/ \E i \in 1..Len(iters) : NextBit(i)
  \/ \E i \in 1..Len(iters) : NextInt(i)
  \/ /\ mcall.op = "none"
     /\ \E bits \in SeqsUpTo({0, 1}, MaxLen) : CombineCall(0, FALSE, FALSE, 0, bits)
  \/ /\ mcall.op = "none"
     /\ \E value \in -Pow2(MaxLen)..Pow2(MaxLen) : ApplyCall(0, FALSE, FALSE, 0, value)

NextEmpty == EmptyStep /\ UNCHANGED written

SpecEmpty == InitEmpty /\ [][NextEmpty]_vars

\* ---------------------------------------------------- the drain specification

\* SpecDrain: finite value sources that do not fail are written at the end of
\* the stream, then one generator is taken (iter(stream), iter_ints with fill 0
\* or 1, iter_bytes with the constructor's fill) and drained to its end with
\* nothing written meanwhile.
\* The caller of a full drain keeps calling next() until it ends, which is the
\* weak fairness of the two next() actions.
InitDrain == \E fill \in {<<0>>, <<1>>} : EmptyStream(UINT2_MSB_FIRST, fill)

\* the next() of the draining caller
DrainNextBit == (\E i \in 1..Len(iters) : NextBit(i)) /\ UNCHANGED written
DrainNextInt == (\E i \in 1..Len(iters) : NextInt(i)) /\ UNCHANGED written

NextDrain ==
  \/ /\ iters = <<>>
     /\ \E values \in SeqsUpTo({<<0>>, <<1>>}, MaxLen) :
          /\ WriteBits(values, FALSE)
          /\ written' = Append(written, WriteCall(values, <<>>, FALSE))
  \/ /\ iters = <<>>
     /\ \E values \in SeqsUpTo(MaskedValues, MaxInts) :
          /\ WriteInts(values, INT3_LSB_FIRST, FALSE)
          /\ written' = Append(written, WriteCall(values, INT3_LSB_FIRST, FALSE))
  \/ iters = <<>> /\ Iter /\ UNCHANGED written
  \/ /\ iters = <<>>
     /\ \E fill \in {<<0>>, <<1>>} : IterInts(INT3_LSB_FIRST, fill)
     /\ UNCHANGED written
  \/ iters = <<>> /\ IterBytes(<<>>, Sentinel) /\ UNCHANGED written
  \/ DrainNextBit
  \/ DrainNextInt

\* next() of an iter_ints / iter_bytes generator changes nothing exactly when the
\* generator is spent and its StopIteration is already the latest event
IntDrainOver ==
  \A i \in 1..Len(iters) :
    iters[i].kind = "ints" => Spent(iters[i]) /\ last = Event("next", i, "stop", 0, <<>>)

\* the second fairness condition is WF_vars(DrainNextInt) written out, with
\* IntDrainOver for ~ENABLED <<DrainNextInt>>_vars
SpecDrain ==
  /\ InitDrain
  /\ [][NextDrain]_vars
  /\ WF_vars(DrainNextBit)
  /\ ([]<>IntDrainOver \/ []<><<DrainNextInt>>_vars)

\* ------------------------------------------------ the tail-keeping specification

\* SpecTail: writes at the end of the stream alternating with complete drains
\* under the None policy, each drain a new generator over the stream's
\* byte_bitmasks: iter_ints(byte_bitmasks, None), or iter_bytes() with the
\* constructor's end_fill None.
InitTail == \E masks \in StreamMasks, fill \in {<<>>, <<0>>} : EmptyStream(masks, fill)

\* no drain is under way
AllSpent == \A i \in 1..Len(iters) : Spent(iters[i])

NextTail ==
  \/ /\ AllSpent
     /\ \E values \in SeqsUpTo({<<0>>, <<1>>}, MaxLen) \cup {FiveOnes} :
          /\ WriteBits(values, FALSE)
          /\ written' = Append(written, WriteCall(values, <<>>, FALSE))
  \/ AllSpent /\ IterInts(byte_bitmasks, <<>>) /\ UNCHANGED written
  \/ AllSpent /\ end_fill = <<>> /\ IterBytes(<<>>, Sentinel) /\ UNCHANGED written
  \/ /\ \E i \in 1..Len(iters) : ~Spent(iters[i]) /\ NextInt(i)
     /\ UNCHANGED written

SpecTail == InitTail /\ [][NextTail]_vars

\* ------------------------------------------------------------------ claims

\* the integers of a width: 0 .. 2^W-1 unsigned, -2^(W-1) .. 2^(W-1)-1 signed
Representable(v, width, signed) ==
  IF signed THEN -Pow2(width - 1) <= v /\ v < Pow2(width - 1)
  ELSE 0 <= v /\ v < Pow2(width)

GroupDivides(width, gw) == gw = 0 \/ width % gw = 0

\* C1: for masks = create(W, signed, lsb_first, group width absent or dividing
\* W), W >= 1, and every v representable at that width and signedness,
\* combine(masks, apply(masks, v)) = v.
C1_RoundTrip ==
  (/\ mcall.op = "roundtrip"
   /\ mcall.width >= 1
   /\ GroupDivides(mcall.width, mcall.gw)
   /\ Representable(mcall.value, mcall.width, mcall.signed))
  => mcall.combined = mcall.value

\* a negative value through signed, byte-swapped masks of two groups
C1_Witness ==
  /\ mcall.op = "roundtrip"
  /\ mcall.width = 4 /\ mcall.signed /\ ~mcall.lsb_first /\ mcall.gw = 2
  /\ mcall.masks = <<2, 1, -8, 4>>
  /\ mcall.value = -3
  /\ mcall.applied = <<0, 1, -8, 4>>
  /\ mcall.combined = -3

\* C9: create fails with an invalid-argument error (ValueError), returning no
\* masks, whenever width <= 0 or a group width is given that does not divide
\* width.
C9_CreateRejectsInvalid ==
  (/\ mcall.op = "create"
   /\ (mcall.width <= 0 \/ ~GroupDivides(mcall.width, mcall.gw)))
  => mcall.err = "ValueError"

\* the integers handed to a write call
Values(call) == [k \in 1..Len(call.values) |-> call.values[k][1]]

IsPrefix(a, b) == Len(a) <= Len(b) /\ a = SubSeq(b, 1, Len(a))

\* what a drain through the generator it has given back of the values vs:
\* never anything else than the values in order, and all of them once it ended
YieldsExactly(it, vs) ==
  /\ IsPrefix(it.got, vs)
  /\ it.state = "done" => it.got = vs

IsSigned(masks) == \E k \in 1..Len(masks) : masks[k] < 0

\* C2 as stated: for any 8-bit mask sequence and byte values 0..255,
\* write_bytes(values, masks) on an empty stream and a drain of
\* iter_bytes(masks) yield the values written, in order.
C2_AnyMasks ==
  \A i \in 1..Len(iters) : YieldsExactly(iters[i], Values(written[1]))

\* C2, amended: the same for the 8-bit mask sequences of create(8, signed,
\* lsb_first) when every value is representable under the masks: 0..255 for the
\* unsigned ones, 0..127 for the signed ones.
C2_ByteRoundTrip ==
  \A i \in 1..Len(iters) :
    (\A k \in 1..Len(written[1].values) :
        Representable(written[1].values[k][1], 8, IsSigned(byte_bitmasks)))
    => YieldsExactly(iters[i], Values(written[1]))

\* two bytes with the top bit set and clear, least significant bit first,
\* drained to the end
C2_Witness ==
  /\ byte_bitmasks = UINT8_LSB_FIRST
  /\ written = <<WriteCall(<< <<200>>, <<18>> >>, UINT8_LSB_FIRST, FALSE)>>
  /\ Len(iters) = 1
  /\ iters[1].masks = UINT8_LSB_FIRST
  /\ iters[1].state = "done"
  /\ iters[1].got = <<200, 18>>
  /\ bit_sources = <<>>

\* C10: two raw bytes b0, b1 written most significant bit first and drained
\* with iter_ints give the single integer 256*b0 + b1 over the 16-bit
\* big-endian masks and 256*b1 + b0 over the little-endian ones (the signed
\* masks whenever that result is below 2^15).
C10_EndianSwap ==
  \A i \in 1..Len(iters) :
    LET b0 == written[1].values[1][1]
        b1 == written[1].values[2][1]
        be == 256 * b0 + b1
        le == 256 * b1 + b0
        m  == iters[i].masks
    IN  /\ m = UINT16_BE => YieldsExactly(iters[i], <<be>>)
        /\ m = UINT16_LE => YieldsExactly(iters[i], <<le>>)
        /\ (m = INT16_BE /\ be < 32768) => YieldsExactly(iters[i], <<be>>)
        /\ (m = INT16_LE /\ le < 32768) => YieldsExactly(iters[i], <<le>>)
        /\ (m = INT16_BE /\ b0 = 18 /\ b1 = 52) => IsPrefix(iters[i].got, <<4660>>)

\* the bytes 0x12, 0x34 drained with INT16_LE: 0x3412
C10_Witness ==
  /\ written = <<WriteCall(<< <<18>>, <<52>> >>, UINT8_MSB_FIRST, FALSE)>>
  /\ Len(iters) = 1
  /\ iters[1].masks = INT16_LE
  /\ iters[1].state = "done"
  /\ iters[1].got = <<13330>>

\* ---- the claims on the stream

BitTokens(bits) == [k \in 1..Len(bits) |-> <<bits[k]>>]

Repeat(b, k) == [j \in 1..k |-> b]

\* the latest step was a next() of an iter_ints / iter_bytes generator that
\* reached the end of the stream with k bits of a group, 0 < k < len(masks)
ShortRead ==
  /\ last.op = "next"
  /\ iters[last.it].kind = "ints"
  /\ last.res # "raise"
  /\ 0 < Len(last.bits)
  /\ Len(last.bits) < Len(iters[last.it].masks)

LastFill == EffectiveFill(iters[last.it].fill, end_fill)

\* C3: under the effective fill policy None a tail of k bits, 0 < k <
\* len(masks), yields no integer and ends the iteration, and the stream then
\* holds exactly those k bits in their order: a new iteration yields them first.
C3_TailKept ==
  (ShortRead /\ LastFill = <<>>)
  => /\ last.res = "stop"
     /\ iters[last.it].state = "done"
     /\ DrainAll(bit_sources) = BitTokens(last.bits)
     /\ expect = BitTokens(last.bits)
     /\ BitIterNext(bit_sources).res = "bit"
     /\ BitIterNext(bit_sources).bit = last.bits[1]

\* five 1-bits under iter_bytes(end_fill=None): nothing yielded, all five kept
C3_Witness ==
  /\ last = Event("next", 1, "stop", 0, <<1, 1, 1, 1, 1>>)
  /\ iters[1].masks = UINT8_MSB_FIRST
  /\ LastFill = <<>>
  /\ iters[1].got = <<>>
  /\ DrainAll(bit_sources) = Repeat(<<1>>, 5)

\* C4: under the effective fill policy 0 a tail of k bits yields exactly one
\* final integer, combine of the k bits against the first k masks, equal to
\* combine(masks, the k bits followed by zeros), and leaves no bit in the
\* stream; five 1-bits over UINT8_MSB_FIRST give 248.
C4_ZeroFillTail ==
  (ShortRead /\ LastFill = <<0>>)
  => LET it == iters[last.it]
         k  == Len(last.bits)
         n  == Len(it.masks)
     IN  /\ last.res = "int"
         /\ last.val = Combine(SubSeq(it.masks, 1, k), last.bits)
         /\ last.val = Combine(it.masks, last.bits \o Repeat(0, n - k))
         /\ it.got # <<>> /\ it.got[Len(it.got)] = last.val
         /\ it.inner = "done"
         /\ bit_sources = <<>>
         /\ expect = <<>>
         /\ (it.masks = UINT8_MSB_FIRST /\ last.bits = <<1, 1, 1, 1, 1>>) => last.val = 248

C4_Witness ==
  /\ last = Event("next", 1, "int", 248, <<1, 1, 1, 1, 1>>)
  /\ iters[1].masks = UINT8_MSB_FIRST
  /\ LastFill = <<0>>
  /\ iters[1].got = <<248>>
  /\ bit_sources = <<>>

\* C5: under a truthy effective fill policy a tail of k bits is padded to
\* len(masks) bits and yields one final integer, combine(masks, the k bits
\* followed by one-bits), and leaves no bit in the stream.
C5_OneFillTail ==
  (ShortRead /\ LastFill # <<>> /\ Truthy(LastFill[1]))
  => LET it == iters[last.it]
         k  == Len(last.bits)
         n  == Len(it.masks)
     IN  /\ last.res = "int"
         /\ Len(PadFill(last.bits, LastFill, n)) = n
         /\ last.val = Combine(it.masks, last.bits \o Repeat(1, n - k))
         /\ it.got # <<>> /\ it.got[Len(it.got)] = last.val
         /\ it.inner = "done"
         /\ bit_sources = <<>>
         /\ expect = <<>>

\* the bits 1, 0 padded with ones over UINT8_MSB_FIRST: 0b10111111
C5_Witness ==
  /\ last = Event("next", 1, "int", 191, <<1, 0>>)
  /\ iters[1].masks = UINT8_MSB_FIRST
  /\ LastFill = <<1>>
  /\ iters[1].got = <<191>>
  /\ bit_sources = <<>>

\* the tokens the producers of q still hold, producer by producer
RemainingOf(q) == Flatten([k \in 1..Len(q) |-> DrainAll(<<q[k]>>)])

\* C6: the bits still to be yielded are the remaining bits of the queued
\* producers, front to back, and they are what the writes and reads so far
\* define: a write at the end adds its bits after all queued bits, a write at
\* the start before all unread bits, a read takes the first unread bit.
C6_StreamOrder ==
  /\ DrainAll(bit_sources) = RemainingOf(bit_sources)
  /\ DrainAll(bit_sources) = expect

\* a write at the start after the front producer was read in part
C6_Witness ==
  /\ last.op = "write_bits"
  /\ Len(iters) = 1 /\ iters[1].got = <<1>>
  /\ Len(bit_sources) = 2
  /\ bit_sources[1].src = << <<5>> >>
  /\ bit_sources[2].src = << <<0>> >>
  /\ expect = << <<1>>, <<0>> >>

\* C7: a generator that has ended never yields again, whatever is written
\* afterwards; what a live iter(stream) generator yields is the first unread
\* bit of the stream.
C7_SpentNeverResumes ==
  [][\A i \in 1..Len(iters) :
       /\ iters[i].state = "done" => iters'[i] = iters[i]
       /\ (iters[i].kind = "bits" /\ iters'[i].got # iters[i].got)
          => /\ expect # <<>>
             /\ Head(expect) # Raises
             /\ iters'[i].got = Append(iters[i].got, Head(expect)[1])]_vars

\* a spent generator asked again while a later write is unread
C7_Witness ==
  /\ last = Event("next", 1, "stop", 0, <<>>)
  /\ Len(iters) = 1
  /\ iters[1].state = "done" /\ iters[1].got = <<0>>
  /\ nwrites = 2
  /\ expect = << <<1>> >>

WriteOps == {"write_bits", "write_ints", "write_bytes"}

\* C8: a write never fails and pulls nothing from its value source: it only
\* enqueues a producer; a next() fails exactly when the first unread element
\* of the stream is a failing one, and yields the first unread bit otherwise.
C8_LazyFailure ==
  [][/\ last'.op \in WriteOps
        => /\ last'.res = "ok"
           /\ iters' = iters
           /\ Len(bit_sources') = Len(bit_sources) + 1
           /\ \E k \in {1, Len(bit_sources')} :
                 /\ bit_sources'[k].cur = <<>>
                 /\ DrainAll(<<bit_sources'[k]>>) \in {DropTokens(expect', Len(expect)),
                                                       SubSeq(expect', 1, Len(expect') - Len(expect))}
           /\ DrainAll(bit_sources') = expect'
     /\ (last'.op = "next" /\ ~Spent(iters[last'.it]))
        => /\ expect = <<>> => last'.res = "stop"
           /\ (expect # <<>> /\ Head(expect) = Raises) => last'.res = "raise"
           /\ (expect # <<>> /\ Head(expect) # Raises)
              => last'.res = "bit" /\ last'.val = Head(expect)[1]]_vars

\* a source failing at its second element: its first bit was yielded, the
\* failure came with the next() after it, the later write is still unread
C8_Witness ==
  /\ last = Event("next", 1, "raise", 0, <<>>)
  /\ iters[1].got = <<1>>
  /\ iters[1].state = "done"
  /\ expect = << <<0>> >>

\* ---- the claims on the mask algebra, continued

AllOnes(bits, n) == bits = Repeat(1, n)

\* the bit paired by zip with the negative weight is set
SignBitSet(masks, bits) ==
  \E k \in 1..Min(Len(masks), Len(bits)) : masks[k] < 0 /\ Truthy(bits[k])

\* C11: for every width W >= 1 and either bit order, combining W one-bits
\* gives -1 over create(W, signed) and 2^W - 1 over create(W, unsigned); eight
\* one-bits give -1 over INT8_MSB_FIRST and 255 over UINT8_MSB_FIRST; a signed
\* combine is negative exactly when the bit paired with the sign weight is set.
C11_AllOnes ==
  (mcall.op = "combine" /\ mcall.width >= 1)
  => /\ AllOnes(mcall.applied, mcall.width)
        => mcall.combined = IF mcall.signed THEN -1 ELSE Pow2(mcall.width) - 1
     /\ (mcall.masks = INT8_MSB_FIRST /\ AllOnes(mcall.applied, 8)) => mcall.combined = -1
     /\ (mcall.masks = UINT8_MSB_FIRST /\ AllOnes(mcall.applied, 8)) => mcall.combined = 255
     /\ mcall.combined < 0 <=> SignBitSet(mcall.masks, mcall.applied)

\* the single-bit signed width: combine((-1,), [1]) = -1
C11_Witness ==
  /\ mcall.op = "combine"
  /\ mcall.width = 1 /\ mcall.signed
  /\ mcall.masks = <<-1>>
  /\ mcall.applied = <<1>>
  /\ mcall.combined = -1

Abs(v) == IF v < 0 THEN -v ELSE v

\* C12: create(W, signed, lsb_first, group width) with W >= 1 returns W
\* weights whose magnitudes are a permutation of 2^0 .. 2^(W-1); the only
\* negative weight is -2^(W-1), present exactly when signed; without grouping
\* the weight of magnitude 2^(W-1) is first when lsb_first is false and last
\* when it is true.
C12_MaskStructure ==
  (mcall.op = "create" /\ mcall.width >= 1)
  => LET m == mcall.masks
         W == mcall.width
         top == Pow2(W - 1)
     IN  /\ mcall.err = "none"
         /\ Len(m) = W
         /\ {Abs(m[k]) : k \in 1..Len(m)} = {Pow2(n) : n \in 0..(W - 1)}
         /\ {m[k] : k \in {j \in 1..Len(m) : m[j] < 0}} = IF mcall.signed THEN {-top} ELSE {}
         /\ Cardinality({k \in 1..Len(m) : m[k] < 0}) = IF mcall.signed THEN 1 ELSE 0
         /\ mcall.gw = 0 => Abs(m[IF mcall.lsb_first THEN W ELSE 1]) = top

\* signed, least significant bit first, groups of two reversed
C12_Witness ==
  /\ mcall.op = "create"
  /\ mcall.width = 4 /\ mcall.signed /\ mcall.lsb_first /\ mcall.gw = 2
  /\ mcall.masks = <<4, -8, 1, 2>>

\* ---- the claims on the stream, continued

RECURSIVE RawFront(_)
\* the value the next make_bit of the deque q is handed: an element of a
\* write_bits source, or a masked value of a write_ints source
RawFront(q) ==
  IF q = <<>> THEN 0
  ELSE LET p == q[1]
       IN  IF p.cur # <<>> THEN Head(p.cur)
           ELSE IF p.src = <<>> THEN RawFront(Tail(q))
           ELSE IF Head(p.src) = Raises THEN 0
           ELSE IF p.kind = "bits" THEN Head(p.src)[1]
           ELSE RawFront(<<[p EXCEPT !.src = Tail(p.src),
                                     !.cur = [k \in 1..Len(p.masks) |->
                                                BitAnd(Head(p.src)[1], p.masks[k])]]>>
                         \o Tail(q))

RECURSIVE RawFronts(_, _)
\* the values behind the next n bits of the deque q
RawFronts(q, n) ==
  IF n = 0 \/ BitIterNext(q).res # "bit" THEN <<>>
  ELSE <<RawFront(q)>> \o RawFronts(BitIterNext(q).q, n - 1)

IsBit(b) == b \in {0, 1}

BitOf(v) == IF v # 0 THEN 1 ELSE 0

\* C13: every value an iteration of the stream yields, and every bit iter_ints
\* takes, is 0 or 1, and is 1 exactly when the value it comes from (an element
\* of a write_bits source, a masked value of write_ints / write_bytes, a bit
\* written back under the None policy) is non-zero.
C13_BitsAreBits ==
  [][/\ \A i \in 1..Len(iters) :
          (iters[i].kind = "bits" /\ iters'[i].got # iters[i].got)
          => LET b == iters'[i].got[Len(iters'[i].got)]
             IN  /\ IsBit(b)
                 /\ b = 1 <=> RawFront(bit_sources) # 0
     /\ (last'.op = "next" /\ iters[last'.it].kind = "ints" /\ ~Spent(iters[last'.it]))
        => /\ \A k \in 1..Len(last'.bits) : IsBit(last'.bits[k])
           /\ last'.bits = [k \in 1..Len(last'.bits) |->
                               BitOf(RawFronts(bit_sources, Len(last'.bits))[k])]
     /\ (last'.op = "next" /\ iters[last'.it].kind = "ints" /\ ~Spent(iters[last'.it])
           /\ last'.res = "stop" /\ last'.bits # <<>>)
        => /\ bit_sources' # <<>>
           /\ LET back == bit_sources'[Len(bit_sources')]
              IN  /\ back.kind = "bits"
                  /\ Len(back.src) = Len(last'.bits)
                  /\ \A j \in 1..Len(back.src) : IsBit(back.src[j][1])]_vars

\* the values 5 and 0 written, then -3 over (1, 2, -4): iter_ints reads the
\* group 1, 0, 1 as -3, writes the tail 0, 1 back, and a new iter(stream)
\* yields it
C13_Witness ==
  /\ written = <<WriteCall(<< <<5>>, <<0>> >>, <<>>, FALSE),
                 WriteCall(<< <<-3>> >>, INT3_LSB_FIRST, FALSE)>>
  /\ Len(iters) = 2
  /\ iters[1].kind = "ints" /\ iters[1].got = <<-3>> /\ iters[1].state = "done"
  /\ iters[2].kind = "bits" /\ iters[2].got = <<0, 1>>
  /\ last = Event("next", 2, "bit", 1, <<>>)

\* C14: on a stream constructed empty no generator ever yields anything, under
\* any fill policy; the first next() of a generator ends it and leaves the deque
\* empty; combine over the empty mask sequence is 0 for any bits and apply over
\* it yields nothing.
C14_EmptyStream ==
  [][/\ \A i \in 1..Len(iters') : iters'[i].got = <<>>
     /\ (last'.op = "next" /\ mcall' = mcall /\ ~Spent(iters[last'.it]))
        => /\ last'.res = "stop"
           /\ iters'[last'.it].state = "done"
           /\ bit_sources' = <<>>
           /\ DrainAll(bit_sources') = <<>>
     /\ (mcall'.op = "combine" /\ mcall'.masks = <<>>) => mcall'.combined = 0
     /\ (mcall'.op = "apply" /\ mcall'.masks = <<>>) => mcall'.applied = <<>>]_vars

\* BitStream([]) drained by iter(stream) and by iter_ints under None, and
\* combine((), [1, 1])
C14_Witness ==
  /\ nwrites = 1
  /\ Len(iters) = 2
  /\ iters[1].kind = "ints" /\ EffectiveFill(iters[1].fill, end_fill) = <<>>
  /\ iters[1].state = "done" /\ iters[1].got = <<>>
  /\ iters[2].kind = "bits" /\ iters[2].state = "done" /\ iters[2].got = <<>>
  /\ bit_sources = <<>>
  /\ mcall.op = "combine" /\ mcall.masks = <<>> /\ mcall.applied = <<1, 1>>
  /\ mcall.combined = 0

\* the policy the claim names for a generator: the per-call end_fill when one
\* was passed, the constructor's when the call left the sentinel default
PolicyOf(it) == IF it.fill = Sentinel THEN end_fill ELSE it.fill

\* C15: the tail of a drain by iter_ints / iter_bytes is treated by the
\* per-call end_fill whenever one is passed and by the constructor's end_fill
\* only under the sentinel default: policy None ends the drain and keeps the
\* tail bits in the stream, policy 0 yields the tail unpadded and policy 1
\* yields it padded, both leaving the stream empty.
C15_FillResolution ==
  ShortRead
  => LET it == iters[last.it]
         n  == Len(it.masks)
         k  == Len(last.bits)
         policy == PolicyOf(it)
     IN  /\ policy = <<>>
            => /\ last.res = "stop"
               /\ DrainAll(bit_sources) = BitTokens(last.bits)
         /\ policy = <<0>>
            => /\ last.res = "int"
               /\ last.val = Combine(it.masks, last.bits \o Repeat(0, n - k))
               /\ bit_sources = <<>>
         /\ policy = <<1>>
            => /\ last.res = "int"
               /\ last.val = Combine(it.masks, last.bits \o Repeat(1, n - k))
               /\ bit_sources = <<>>
         /\ policy \in FillValues

\* iter_bytes(end_fill=0) on a stream constructed with end_fill=None: the five
\* 1-bits are consumed as 248
C15_Witness ==
  /\ end_fill = <<>>
  /\ Len(iters) = 1
  /\ iters[1].kind = "ints" /\ iters[1].fill = <<0>>
  /\ iters[1].masks = UINT8_MSB_FIRST
  /\ last = Event("next", 1, "int", 248, <<1, 1, 1, 1, 1>>)
  /\ bit_sources = <<>>

\* iter_ints(masks, end_fill=None) on a stream constructed with end_fill=0: the
\* tail 1, 0 is kept
C15_WitnessNone ==
  /\ end_fill = <<0>>
  /\ Len(iters) = 1
  /\ iters[1].kind = "ints" /\ iters[1].fill = <<>>
  /\ iters[1].masks = INT3_LSB_FIRST
  /\ last = Event("next", 1, "stop", 0, <<1, 0>>)
  /\ DrainAll(bit_sources) = << <<1>>, <<0>> >>

RECURSIVE BehindFirstLive(_)
\* the producers queued behind the first producer of q that is not exhausted
BehindFirstLive(q) ==
  IF q = <<>> THEN <<>>
  ELSE IF NextOfProducer(q[1]).res = "end" THEN BehindFirstLive(Tail(q))
  ELSE Tail(q)

\* C16: when a value source fails under a next() of iter(stream), that next()
\* fails; the bits yielded before stay consumed, the failed producer yields
\* nothing more, and what the stream still holds is exactly the bits of the
\* producers queued behind it, in order, which a new iteration yields first.
C16_FailureKeepsStream ==
  [][(last'.op = "next" /\ last'.res = "raise" /\ ~Spent(iters[last'.it]))
     => LET i == last'.it
            behind == BehindFirstLive(bit_sources)
        IN  /\ iters'[i].got = iters[i].got
            /\ iters'[i].state = "done"
            /\ bit_sources' # <<>>
            /\ DrainAll(<<bit_sources'[1]>>) = <<>>
            /\ Tail(bit_sources') = behind
            /\ DrainAll(bit_sources') = RemainingOf(behind)
            /\ expect # <<>> /\ Head(expect) = Raises
            /\ DrainAll(bit_sources') = Tail(expect)
            /\ behind # <<>> /\ RemainingOf(behind) # <<>>
               => LET nxt == BitIterNext(bit_sources')
                      tok == Head(RemainingOf(behind))
                  IN  IF tok = Raises THEN nxt.res = "raise"
                      ELSE nxt.res = "bit" /\ nxt.bit = tok[1]]_vars

\* a source of 1, failure, with the bits 1, 0 queued behind it: the bit 1 was
\* yielded, the next() after it failed, the stream holds 1, 0
C16_Witness ==
  /\ last = Event("next", 1, "raise", 0, <<>>)
  /\ iters[1].got = <<1>>
  /\ Len(bit_sources) = 2
  /\ DrainAll(<<bit_sources[1]>>) = <<>>
  /\ bit_sources[2].src = << <<1>>, <<0>> >>
  /\ DrainAll(bit_sources) = << <<1>>, <<0>> >>

RECURSIVE AllWritten(_)
\* the bits of the write calls of the log, in stream order
AllWritten(calls) ==
  IF calls = <<>> THEN <<>>
  ELSE LET c == calls[Len(calls)]
           toks == SourceTokens(IF c.masks = <<>> THEN "bits" ELSE "ints", c.values, c.masks)
           before == AllWritten(SubSeq(calls, 1, Len(calls) - 1))
       IN  IF c.at_start THEN toks \o before ELSE before \o toks

RECURSIVE GroupInts(_, _, _)
\* the integers of a bit sequence cut into groups of len(masks), the last group
\* padded with the fill bit
GroupInts(bits, masks, fill) ==
  IF bits = <<>> THEN <<>>
  ELSE IF Len(bits) < Len(masks)
    THEN <<Combine(masks, bits \o Repeat(fill, Len(masks) - Len(bits)))>>
  ELSE <<Combine(masks, SubSeq(bits, 1, Len(masks)))>>
       \o GroupInts(SubSeq(bits, Len(masks) + 1, Len(bits)), masks, fill)

\* the drain has ended, the deque is empty and every written bit was yielded
\* once, in order: as itself by iter(stream), inside the integers of its group by
\* iter_ints / iter_bytes
Drained ==
  /\ iters # <<>>
  /\ iters[1].state = "done"
  /\ bit_sources = <<>>
  /\ LET bits == TokenBits(AllWritten(written))
     IN  IF iters[1].kind = "bits" THEN iters[1].got = bits
         ELSE iters[1].got = GroupInts(bits, iters[1].masks, PolicyOf(iters[1])[1])

\* C17: with finite producers and no write during the drain, a full drain by
\* iter(stream), or by iter_ints / iter_bytes under a non-None fill policy,
\* ends, having yielded every queued bit exactly once, with the deque empty.
C17_DrainTerminates == (iters # <<>>) ~> Drained

\* the bits 1, 0 and the integer -3 (bits 1, 0, 1) drained by iter_bytes over
\* (2, 1) with fill 1: 2, 2, 3
C17_Witness ==
  /\ written = <<WriteCall(<< <<1>>, <<0>> >>, <<>>, FALSE),
                 WriteCall(<< <<-3>> >>, INT3_LSB_FIRST, FALSE)>>
  /\ Len(iters) = 1
  /\ iters[1].kind = "ints" /\ iters[1].masks = UINT2_MSB_FIRST
  /\ PolicyOf(iters[1]) = <<1>>
  /\ iters[1].got = <<2, 2, 3>>
  /\ Drained

\* the bits an integer encodes under the masks
BitsOfInt(masks, v) == [k \in 1..Len(masks) |-> IF BitAnd(v, masks[k]) # 0 THEN 1 ELSE 0]

\* the bits of every integer the generators have yielded, in creation order
YieldedBits ==
  Flatten([i \in 1..Len(iters) |->
             Flatten([k \in 1..Len(iters[i].got) |-> BitsOfInt(iters[i].masks, iters[i].got[k])])])

\* C18: under the None policy, with writes at the end of the stream between
\* complete iter_ints drains over the same masks, the bits of the integers
\* yielded so far followed by the bits still in the stream are the bits written
\* so far, in order; when a drain ends fewer than len(masks) bits remain.
C18_BitConservation ==
  /\ YieldedBits \o TokenBits(DrainAll(bit_sources)) = TokenBits(AllWritten(written))
  /\ (last.op = "next" /\ last.res = "stop")
     => /\ Len(DrainAll(bit_sources)) < Len(iters[last.it].masks)
        /\ TokenBits(DrainAll(bit_sources)) = last.bits

\* 1, 0 written and drained over (1, 2, -4): nothing yielded; 1, 1 written and
\* drained by a new generator: -3 (bits 1, 0, 1) yielded, the bit 1 kept
C18_Witness ==
  /\ written = <<WriteCall(<< <<1>>, <<0>> >>, <<>>, FALSE),
                 WriteCall(<< <<1>>, <<1>> >>, <<>>, FALSE)>>
  /\ Len(iters) = 2
  /\ iters[1].masks = INT3_LSB_FIRST /\ iters[1].got = <<>> /\ Spent(iters[1])
  /\ iters[2].got = <<-3>>
  /\ last = Event("next", 2, "stop", 0, <<1>>)
  /\ DrainAll(bit_sources) = << <<1>> >>

\* the bits among the tokens a read has taken
TakenBits(toks) == TokenBits(SelectSeq(toks, LAMBDA t : t # Raises))

\* C19: the generators taken from one stream share its cursor: a next() of any
\* of them takes the first unread bits of the stream, at whatever point the
\* other generators are; only the generator stepped yields, every bit taken
\* leaves the stream for all of them, and the bits that remain keep their
\* order.
C19_SharedCursor ==
  [][(last'.op = "next" /\ ~Spent(iters[last'.it]))
     => LET i == last'.it
            unread == DrainAll(bit_sources)
            n == IF iters[i].kind = "bits" THEN 1 ELSE Len(iters[i].masks)
            took == TakeTokens(unread, n)
        IN  /\ \A j \in 1..Len(iters) : j # i => iters'[j] = iters[j]
            /\ iters[i].kind = "bits"
               => /\ last'.res = "bit" <=> (took # <<>> /\ took[1] # Raises)
                  /\ last'.res = "bit"
                     => /\ last'.val = took[1][1]
                        /\ iters'[i].got = Append(iters[i].got, took[1][1])
                  /\ DrainAll(bit_sources') = DropTokens(unread, Len(took))
            /\ (iters[i].kind = "ints" /\ iters[i].inner = "active")
               => /\ last'.bits = TakenBits(took)
                  /\ DrainAll(bit_sources') \in {DropTokens(unread, Len(took)), unread}
                  /\ DrainAll(bit_sources') = unread
                     => (took = <<>> \/ (last'.res = "stop" /\ iters'[i].got = iters[i].got))
            /\ (iters[i].kind = "ints" /\ iters[i].inner = "done")
               => /\ last'.res = "stop"
                  /\ bit_sources' = bit_sources]_vars

\* the bits 1, 0 and 1, 1 read by an iter(stream) and an iter_ints over
\* (1, 2, -4) in turn: the first takes 1, the second takes 0, 1, 1 (the
\* integer -2), the first finds the stream at its end
C19_Witness ==
  /\ Len(iters) = 2
  /\ iters[1].kind = "bits" /\ iters[1].got = <<1>> /\ iters[1].state = "done"
  /\ iters[2].kind = "ints" /\ iters[2].masks = INT3_LSB_FIRST
  /\ iters[2].got = <<-2>> /\ iters[2].state = "active"
  /\ last = Event("next", 1, "stop", 0, <<>>)
  /\ nwrites = 2
  /\ bit_sources = <<>>

\* C20: when a value source fails while iter_ints / iter_bytes collects a
\* group, the next() fails, the j bits already taken for the group (j <
\* len(masks)) are not written back under any fill policy, None included: the
\* stream holds only what followed the failure, the generator has ended and the
\* j bits are in no integer it yielded.
C20_PartialGroupLost ==
  [][(/\ last'.op = "next"
      /\ last'.res = "raise"
      /\ iters[last'.it].kind = "ints"
      /\ ~Spent(iters[last'.it]))
     => LET i == last'.it
            unread == DrainAll(bit_sources)
            took == TakeTokens(unread, Len(iters[i].masks))
            j == Len(last'.bits)
        IN  /\ EndsInFailure(took)
            /\ j = Len(took) - 1 /\ j < Len(iters[i].masks)
            /\ last'.bits = TokenBits(SubSeq(unread, 1, j))
            /\ iters'[i].got = iters[i].got
            /\ iters'[i].state = "done"
            /\ DrainAll(bit_sources') = DropTokens(unread, j + 1)
            /\ Len(DrainAll(bit_sources')) = Len(unread) - j - 1
            /\ Len(bit_sources') <= Len(bit_sources)]_vars

\* a source of 1, failure, and the bits 0, 1 behind it, under iter_ints(masks,
\* None): the bit 1 was taken, the next() failed, the stream holds 0, 1 only
C20_Witness ==
  /\ Len(iters) = 1
  /\ iters[1].kind = "ints" /\ EffectiveFill(iters[1].fill, end_fill) = <<>>
  /\ iters[1].masks = INT3_LSB_FIRST
  /\ iters[1].got = <<>> /\ iters[1].state = "done"
  /\ last = Event("next", 1, "raise", 0, <<1>>)
  /\ DrainAll(bit_sources) = << <<0>>, <<1>> >>

====
